---------------------------- MODULE Spec2Model ----------------------------
(***************************************************************************)
(* Model of package zero, type Bool (src/zero/bool.go): a nullable bool    *)
(* embedding sql.NullBool {Bool, Valid}, its constructors, its JSON/text   *)
(* codecs, its accessors and its boolean operators.                        *)
(*                                                                         *)
(* Spec     : one variable b of type zero.Bool and a caller that invokes   *)
(*            the package's functions and methods on it one at a time; the *)
(*            last call (name, arguments, receiver before, results) is     *)
(*            kept so that pre/post conditions are state predicates.       *)
(* SpecConc : goroutines calling the pointer-receiver mutators NON and     *)
(*            SetValid on shared instances, field access by field access.  *)
(***************************************************************************)
EXTENDS Naturals, Sequences, FiniteSets, TLC

VARIABLES
    b,        \* the zero.Bool variable the caller works on
    op,       \* name of the last function or method called
    pre,      \* b as it was when the last call started
    arg,      \* arguments of the last call
    res,      \* results of the last call
    inst,     \* SpecConc: the shared zero.Bool instances
    inst0,    \* SpecConc: the instances as they were before any call
    guarded,  \* SpecConc: do the callers wrap each call in a mutex
    lock,     \* SpecConc: per instance, the goroutine holding its mutex
    call,     \* SpecConc: per goroutine, the call it makes
    pc,       \* SpecConc: per goroutine, where it is in its call
    reg       \* SpecConc: per goroutine, the values it has loaded

seqVars  == <<b, op, pre, arg, res>>
concVars == <<inst, inst0, guarded, lock, call, pc, reg>>
vars     == <<b, op, pre, arg, res, inst, inst0, guarded, lock, call, pc, reg>>

(***************************************************************************)
(* Values                                                                  *)
(***************************************************************************)

\* type Bool struct { sql.NullBool }: the pair of fields Bool and Valid.
BoolT == [Bool : BOOLEAN, Valid : BOOLEAN]

\* A nil error.
Nil == "<nil>"

\* NewBool creates a new Bool.
NewBool(v, valid) == [Bool |-> v, Valid |-> valid]

\* BoolFrom creates a Bool that is always valid.
BoolFrom(v) == NewBool(v, TRUE)

\* A *bool argument: nil, or a pointer to true or to false.
Ptrs == {"nil", "&true", "&false"}

\* BoolFromPtr: null when the pointer is nil, else the pointee, valid.
BoolFromPtr(p) ==
    IF p = "nil" THEN NewBool(FALSE, FALSE) ELSE NewBool(p = "&true", TRUE)

\* The texts handed to the string and text parsers.
Strs ==
    {"", "1", "0", "true", "false", "True", "TRUE", "False", "FALSE",
     "null", "NULL", "tRuE", "yes", "maybe", " true", "2"}

\* NewBoolFromString as it would be if it matched the capitalised spellings
\* that BoolFromString matches.
NewBoolFromString_AnyCase(s, valid) ==
    IF valid
    THEN IF s = "" THEN [Bool |-> FALSE, Valid |-> FALSE]
         ELSE IF s = "1" \/ s = "true" \/ s = "True" \/ s = "TRUE"
              THEN [Bool |-> TRUE, Valid |-> TRUE]
         ELSE IF s = "0" \/ s = "false" \/ s = "False" \/ s = "FALSE"
              THEN [Bool |-> FALSE, Valid |-> TRUE]
         ELSE [Bool |-> FALSE, Valid |-> FALSE]
    ELSE [Bool |-> FALSE, Valid |-> FALSE]

\* NewBoolFromString: the strict, case-sensitive parser gated by valid.
NewBoolFromString(s, valid) ==
    IF valid
    THEN IF s = "" THEN NewBool(FALSE, FALSE)
         ELSE IF s = "1" \/ s = "true" THEN NewBool(TRUE, TRUE)
         ELSE IF s = "0" \/ s = "false" THEN NewBool(FALSE, TRUE)
         ELSE NewBool(FALSE, FALSE)
    ELSE NewBool(FALSE, FALSE)

\* BoolFromString: the lenient parser.
BoolFromString(s) ==
    IF s = "" THEN NewBool(FALSE, TRUE)
    ELSE IF s = "1" \/ s = "true" \/ s = "True" \/ s = "TRUE"
         THEN NewBool(TRUE, TRUE)
    ELSE IF s = "0" \/ s = "false" \/ s = "False" \/ s = "FALSE"
         THEN NewBool(FALSE, TRUE)
    ELSE NewBool(FALSE, FALSE)

\* BoolFromStringExist: is the string non-empty and the flag set.
BoolFromStringExist(s, flag) ==
    IF s = "" \/ flag = FALSE THEN NewBool(FALSE, TRUE) ELSE NewBool(TRUE, TRUE)

(***************************************************************************)
(* encoding/json as UnmarshalJSON uses it                                  *)
(***************************************************************************)

\* JSON documents holding a number, a string, an array.
NumberDocs == {"42", "0", "1.5"}
StringDocs == {"\"true\"", "\"\""}
ArrayDocs  == {"[]", "[true]"}

\* JSON objects, by the token each holds under the keys of sql.NullBool
\* ("absent" when the key is missing).
ObjectDocs ==
    ("{\"Bool\":true,\"Valid\":true}"   :> [Bool |-> "true",   Valid |-> "true"])   @@
    ("{\"Bool\":true,\"Valid\":false}"  :> [Bool |-> "true",   Valid |-> "false"])  @@
    ("{\"Bool\":false,\"Valid\":true}"  :> [Bool |-> "false",  Valid |-> "true"])   @@
    ("{\"Bool\":false,\"Valid\":false}" :> [Bool |-> "false",  Valid |-> "false"])  @@
    ("{}"                               :> [Bool |-> "absent", Valid |-> "absent"]) @@
    ("{\"Bool\":true}"                  :> [Bool |-> "true",   Valid |-> "absent"]) @@
    ("{\"Valid\":true}"                 :> [Bool |-> "absent", Valid |-> "true"])   @@
    ("{\"Bool\":null,\"Valid\":true}"   :> [Bool |-> "null",   Valid |-> "true"])   @@
    ("{\"Bool\":1,\"Valid\":true}"      :> [Bool |-> "number", Valid |-> "true"])   @@
    ("{\"Bool\":true,\"Valid\":\"y\"}"  :> [Bool |-> "true",   Valid |-> "string"])

\* Byte slices that are no JSON document.
BadDocs == {"", "tru", "True", "{"}

\* The byte slices handed to UnmarshalJSON.
JSONDocs ==
    {"true", "false", "null"} \cup NumberDocs \cup StringDocs \cup ArrayDocs
        \cup DOMAIN ObjectDocs \cup BadDocs

SyntaxError == "json: syntax error"
FieldTypeError == "json: cannot unmarshal into Go struct field of type bool"

\* json.Unmarshal(data, &v) with v an interface{}: the error, the dynamic
\* type of the decoded value and, for a bool, the value.
JSONUnmarshalAny(data) ==
    CASE data = "true"  -> [err |-> Nil, dyn |-> "bool", x |-> TRUE]
      [] data = "false" -> [err |-> Nil, dyn |-> "bool", x |-> FALSE]
      [] data = "null"  -> [err |-> Nil, dyn |-> "nil", x |-> FALSE]
      [] data \in NumberDocs -> [err |-> Nil, dyn |-> "float64", x |-> FALSE]
      [] data \in StringDocs -> [err |-> Nil, dyn |-> "string", x |-> FALSE]
      [] data \in ArrayDocs  -> [err |-> Nil, dyn |-> "[]interface {}", x |-> FALSE]
      [] data \in DOMAIN ObjectDocs ->
            [err |-> Nil, dyn |-> "map[string]interface {}", x |-> FALSE]
      [] OTHER -> [err |-> SyntaxError, dyn |-> "nil", x |-> FALSE]

\* reflect.TypeOf(v).Name(): the name of a defined type, and the empty
\* string for a type that is not a defined type (slices, maps).
TypeName(dyn) ==
    IF dyn \in {"bool", "float64", "string"} THEN dyn ELSE ""

\* A bool field after json decodes one token into it: true and false are
\* stored, null and a missing key leave the field as it was, and so does a
\* token of another type (which is an error).
DecodeField(cur, tok) ==
    IF tok = "true" THEN TRUE ELSE IF tok = "false" THEN FALSE ELSE cur

\* json.Unmarshal(data, &b.NullBool) for an object document.
JSONUnmarshalNullBool(b0, data) ==
    LET o == ObjectDocs[data]
    IN  [b   |-> [Bool  |-> DecodeField(b0.Bool, o.Bool),
                  Valid |-> DecodeField(b0.Valid, o.Valid)],
         err |-> IF o.Bool \in {"number", "string"} \/ o.Valid \in {"number", "string"}
                 THEN FieldTypeError ELSE Nil]

(***************************************************************************)
(* Codecs                                                                  *)
(***************************************************************************)

\* UnmarshalJSON as it would be without the final `b.Valid = (err == nil) &&
\* b.Bool`.
UnmarshalJSON_NoCollapse(b0, data) ==
    LET a == JSONUnmarshalAny(data)
    IN  IF a.err # Nil THEN [b |-> b0, err |-> a.err]
        ELSE IF a.dyn = "nil" THEN [b |-> [b0 EXCEPT !.Valid = FALSE], err |-> Nil]
        ELSE CASE a.dyn = "bool" -> [b |-> [b0 EXCEPT !.Bool = a.x], err |-> Nil]
               [] a.dyn = "map[string]interface {}" -> JSONUnmarshalNullBool(b0, data)
               [] OTHER -> [b   |-> b0,
                            err |-> "json: cannot unmarshal " \o TypeName(a.dyn)
                                      \o " into Go value of type zero.Bool"]

\* UnmarshalJSON as it would be if the null case returned without clearing
\* b.Valid.
UnmarshalJSON_NullKeepsValid(b0, data) ==
    LET a == JSONUnmarshalAny(data)
    IN  IF a.err # Nil THEN [b |-> b0, err |-> a.err]
        ELSE IF a.dyn = "nil" THEN [b |-> b0, err |-> Nil]
        ELSE LET d == CASE a.dyn = "bool" ->
                             [b |-> [b0 EXCEPT !.Bool = a.x], err |-> Nil]
                        [] a.dyn = "map[string]interface {}" ->
                             JSONUnmarshalNullBool(b0, data)
                        [] OTHER ->
                             [b   |-> b0,
                              err |-> "json: cannot unmarshal " \o TypeName(a.dyn)
                                        \o " into Go value of type zero.Bool"]
             IN  [b   |-> [d.b EXCEPT !.Valid = (d.err = Nil) /\ d.b.Bool],
                  err |-> d.err]

\* UnmarshalJSON: the receiver after the call and the error returned.
UnmarshalJSON(b0, data) ==
    LET a == JSONUnmarshalAny(data)
    IN  IF a.err # Nil THEN [b |-> b0, err |-> a.err]
        ELSE IF a.dyn = "nil" THEN [b |-> [b0 EXCEPT !.Valid = FALSE], err |-> Nil]
        ELSE LET d == CASE a.dyn = "bool" ->
                             [b |-> [b0 EXCEPT !.Bool = a.x], err |-> Nil]
                        [] a.dyn = "map[string]interface {}" ->
                             JSONUnmarshalNullBool(b0, data)
                        [] OTHER ->
                             [b   |-> b0,
                              err |-> "json: cannot unmarshal " \o TypeName(a.dyn)
                                        \o " into Go value of type zero.Bool"]
             IN  [b   |-> [d.b EXCEPT !.Valid = (d.err = Nil) /\ d.b.Bool],
                  err |-> d.err]

\* UnmarshalText as it would be if the default case returned the error
\* without clearing b.Valid.
UnmarshalText_ErrorKeepsValid(b0, text) ==
    LET str == text
    IN  CASE str = "" \/ str = "null" ->
                [b |-> [b0 EXCEPT !.Valid = FALSE], err |-> Nil]
          [] str = "true" ->
                LET b1 == [b0 EXCEPT !.Bool = TRUE]
                IN  [b |-> [b1 EXCEPT !.Valid = b1.Bool], err |-> Nil]
          [] str = "false" ->
                LET b1 == [b0 EXCEPT !.Bool = FALSE]
                IN  [b |-> [b1 EXCEPT !.Valid = b1.Bool], err |-> Nil]
          [] OTHER -> [b |-> b0, err |-> "invalid input:" \o str]

\* UnmarshalText: the receiver after the call and the error returned.
UnmarshalText(b0, text) ==
    LET str == text
    IN  CASE str = "" \/ str = "null" ->
                [b |-> [b0 EXCEPT !.Valid = FALSE], err |-> Nil]
          [] str = "true" ->
                LET b1 == [b0 EXCEPT !.Bool = TRUE]
                IN  [b |-> [b1 EXCEPT !.Valid = b1.Bool], err |-> Nil]
          [] str = "false" ->
                LET b1 == [b0 EXCEPT !.Bool = FALSE]
                IN  [b |-> [b1 EXCEPT !.Valid = b1.Bool], err |-> Nil]
          [] OTHER ->
                [b |-> [b0 EXCEPT !.Valid = FALSE], err |-> "invalid input:" \o str]

\* MarshalJSON as it would be if it encoded a null Bool as null (as its doc
\* comment says).
MarshalJSON_NullToken(b0) ==
    IF ~b0.Valid THEN [out |-> "null", err |-> Nil]
    ELSE IF ~b0.Bool THEN [out |-> "false", err |-> Nil]
    ELSE [out |-> "true", err |-> Nil]

\* MarshalJSON: the bytes and the error returned.
MarshalJSON(b0) ==
    IF ~b0.Valid \/ ~b0.Bool THEN [out |-> "false", err |-> Nil]
    ELSE [out |-> "true", err |-> Nil]

\* MarshalText: the bytes and the error returned.
MarshalText(b0) ==
    IF ~b0.Valid \/ ~b0.Bool THEN [out |-> "false", err |-> Nil]
    ELSE [out |-> "true", err |-> Nil]

(***************************************************************************)
(* Accessors and mutators                                                  *)
(***************************************************************************)

\* SetValid: the receiver after the call.
SetValid(b0, v) == [Bool |-> v, Valid |-> TRUE]

\* Ptr: nil for a null Bool, else a pointer to (a copy of) its value.
Ptr(b0) == IF ~b0.Valid THEN "nil" ELSE IF b0.Bool THEN "&true" ELSE "&false"

\* IsZero.
IsZero(b0) == ~b0.Valid \/ ~b0.Bool

\* OverwriteWithIfValid as it would be without the `if v`.
OverwriteWithIfValid_Always(b0, st, v) == [Bool |-> st, Valid |-> v]

\* OverwriteWithIfValid: the receiver after the call.
OverwriteWithIfValid(b0, st, v) ==
    IF v THEN [Bool |-> st, Valid |-> v] ELSE b0

(***************************************************************************)
(* Boolean operators                                                       *)
(***************************************************************************)

\* AND: the Bool returned.
AND(s, other) ==
    IF s.Valid /\ other.Valid
    THEN [Bool |-> s.Bool /\ other.Bool, Valid |-> TRUE]
    ELSE [Bool |-> FALSE, Valid |-> FALSE]

\* OR: the Bool returned.
OR(s, other) ==
    IF s.Valid /\ other.Valid
    THEN [Bool |-> s.Bool \/ other.Bool, Valid |-> TRUE]
    ELSE [Bool |-> FALSE, Valid |-> FALSE]

\* NON as it would be without the `if s.Valid`.
NON_Unchecked(s) == [s EXCEPT !.Bool = ~s.Bool]

\* NON: the receiver after the call.
NON(s) == IF s.Valid THEN [s EXCEPT !.Bool = ~s.Bool] ELSE s

\* XOR as it would be if it tested the receiver's Valid only.
XOR_IgnoresOtherValid(s, other) ==
    LET x == s.Bool
        y == other.Bool
    IN  IF s.Valid
        THEN [Bool |-> (x \/ y) /\ ~(x /\ y), Valid |-> TRUE]
        ELSE [Bool |-> FALSE, Valid |-> FALSE]

\* XOR: the Bool returned.
XOR(s, other) ==
    LET x == s.Bool
        y == other.Bool
    IN  IF s.Valid /\ other.Valid
        THEN [Bool |-> (x \/ y) /\ ~(x /\ y), Valid |-> TRUE]
        ELSE [Bool |-> FALSE, Valid |-> FALSE]

(***************************************************************************)
(* Spec: a caller invoking the package on the variable b, call by call     *)
(***************************************************************************)

\* var b zero.Bool: the zero value of the struct.
Zero == [Bool |-> FALSE, Valid |-> FALSE]

\* The arguments of a call: a string or byte slice, a bool, a second bool
\* (the validity argument) and a Bool operand; those a call does not take
\* are left at their zero values.
Args(s, v, valid, other) == [s |-> s, v |-> v, valid |-> valid, other |-> other]
NoArgs == Args("", FALSE, FALSE, Zero)

\* The results of a call: a Bool, a byte slice or pointer, a bool, an error.
Results(ret, out, flag, err) == [ret |-> ret, out |-> out, flag |-> flag, err |-> err]
NoResults == Results(Zero, "", FALSE, Nil)

\* Each action is one call: it records the call's name, the receiver as it
\* was, the arguments and the results, and leaves in b what the call leaves.

\* b = NewBool(v, valid)
CallNewBool ==
    \E v \in BOOLEAN, valid \in BOOLEAN :
        /\ op' = "NewBool"
        /\ pre' = b
        /\ arg' = Args("", v, valid, Zero)
        /\ res' = Results(NewBool(v, valid), "", FALSE, Nil)
        /\ b' = NewBool(v, valid)
        /\ UNCHANGED concVars

\* b = BoolFrom(v)
CallBoolFrom ==
    \E v \in BOOLEAN :
        /\ op' = "BoolFrom"
        /\ pre' = b
        /\ arg' = Args("", v, FALSE, Zero)
        /\ res' = Results(BoolFrom(v), "", FALSE, Nil)
        /\ b' = BoolFrom(v)
        /\ UNCHANGED concVars

\* b = BoolFromPtr(p)
CallBoolFromPtr ==
    \E p \in Ptrs :
        /\ op' = "BoolFromPtr"
        /\ pre' = b
        /\ arg' = Args(p, FALSE, FALSE, Zero)
        /\ res' = Results(BoolFromPtr(p), "", FALSE, Nil)
        /\ b' = BoolFromPtr(p)
        /\ UNCHANGED concVars

\* b = NewBoolFromString(s, valid)
CallNewBoolFromString ==
    \E s \in Strs, valid \in BOOLEAN :
        /\ op' = "NewBoolFromString"
        /\ pre' = b
        /\ arg' = Args(s, FALSE, valid, Zero)
        /\ res' = Results(NewBoolFromString(s, valid), "", FALSE, Nil)
        /\ b' = NewBoolFromString(s, valid)
        /\ UNCHANGED concVars

\* b = BoolFromString(s)
CallBoolFromString ==
    \E s \in Strs :
        /\ op' = "BoolFromString"
        /\ pre' = b
        /\ arg' = Args(s, FALSE, FALSE, Zero)
        /\ res' = Results(BoolFromString(s), "", FALSE, Nil)
        /\ b' = BoolFromString(s)
        /\ UNCHANGED concVars

\* b = BoolFromStringExist(s, flag)
CallBoolFromStringExist ==
    \E s \in Strs, flag \in BOOLEAN :
        /\ op' = "BoolFromStringExist"
        /\ pre' = b
        /\ arg' = Args(s, flag, FALSE, Zero)
        /\ res' = Results(BoolFromStringExist(s, flag), "", FALSE, Nil)
        /\ b' = BoolFromStringExist(s, flag)
        /\ UNCHANGED concVars

\* err = b.UnmarshalJSON(data)
CallUnmarshalJSON ==
    \E data \in JSONDocs :
        /\ op' = "UnmarshalJSON"
        /\ pre' = b
        /\ arg' = Args(data, FALSE, FALSE, Zero)
        /\ res' = Results(Zero, "", FALSE, UnmarshalJSON(b, data).err)
        /\ b' = UnmarshalJSON(b, data).b
        /\ UNCHANGED concVars

\* err = b.UnmarshalText(text)
CallUnmarshalText ==
    \E text \in Strs :
        /\ op' = "UnmarshalText"
        /\ pre' = b
        /\ arg' = Args(text, FALSE, FALSE, Zero)
        /\ res' = Results(Zero, "", FALSE, UnmarshalText(b, text).err)
        /\ b' = UnmarshalText(b, text).b
        /\ UNCHANGED concVars

\* out, err = b.MarshalJSON()  (value receiver: the method works on a copy)
CallMarshalJSON ==
    /\ op' = "MarshalJSON"
    /\ pre' = b
    /\ arg' = NoArgs
    /\ res' = Results(Zero, MarshalJSON(b).out, FALSE, MarshalJSON(b).err)
    /\ b' = b
    /\ UNCHANGED concVars

\* out, err = b.MarshalText()  (value receiver)
CallMarshalText ==
    /\ op' = "MarshalText"
    /\ pre' = b
    /\ arg' = NoArgs
    /\ res' = Results(Zero, MarshalText(b).out, FALSE, MarshalText(b).err)
    /\ b' = b
    /\ UNCHANGED concVars

\* b.SetValid(v)
CallSetValid ==
    \E v \in BOOLEAN :
        /\ op' = "SetValid"
        /\ pre' = b
        /\ arg' = Args("", v, FALSE, Zero)
        /\ res' = NoResults
        /\ b' = SetValid(b, v)
        /\ UNCHANGED concVars

\* p = b.Ptr()  (value receiver)
CallPtr ==
    /\ op' = "Ptr"
    /\ pre' = b
    /\ arg' = NoArgs
    /\ res' = Results(Zero, Ptr(b), FALSE, Nil)
    /\ b' = b
    /\ UNCHANGED concVars

\* flag = b.IsZero()  (value receiver)
CallIsZero ==
    /\ op' = "IsZero"
    /\ pre' = b
    /\ arg' = NoArgs
    /\ res' = Results(Zero, "", IsZero(b), Nil)
    /\ b' = b
    /\ UNCHANGED concVars

\* b.OverwriteWithIfValid(st, v)
CallOverwriteWithIfValid ==
    \E st \in BOOLEAN, v \in BOOLEAN :
        /\ op' = "OverwriteWithIfValid"
        /\ pre' = b
        /\ arg' = Args("", st, v, Zero)
        /\ res' = NoResults
        /\ b' = OverwriteWithIfValid(b, st, v)
        /\ UNCHANGED concVars

\* ret = b.AND(other)  (value receiver, value argument)
CallAND ==
    \E other \in BoolT :
        /\ op' = "AND"
        /\ pre' = b
        /\ arg' = Args("", FALSE, FALSE, other)
        /\ res' = Results(AND(b, other), "", FALSE, Nil)
        /\ b' = b
        /\ UNCHANGED concVars

\* ret = b.OR(other)
CallOR ==
    \E other \in BoolT :
        /\ op' = "OR"
        /\ pre' = b
        /\ arg' = Args("", FALSE, FALSE, other)
        /\ res' = Results(OR(b, other), "", FALSE, Nil)
        /\ b' = b
        /\ UNCHANGED concVars

\* b.NON()
CallNON ==
    /\ op' = "NON"
    /\ pre' = b
    /\ arg' = NoArgs
    /\ res' = NoResults
    /\ b' = NON(b)
    /\ UNCHANGED concVars

\* ret = b.XOR(other)
CallXOR ==
    \E other \in BoolT :
        /\ op' = "XOR"
        /\ pre' = b
        /\ arg' = Args("", FALSE, FALSE, other)
        /\ res' = Results(XOR(b, other), "", FALSE, Nil)
        /\ b' = b
        /\ UNCHANGED concVars

(***************************************************************************)
(* SpecConc: goroutines calling NON and SetValid on shared instances.      *)
(* The methods take no lock themselves, so a call is a sequence of loads   *)
(* and stores of the two fields, and the calls of different goroutines     *)
(* interleave between any two of them.  A caller that wants exclusion      *)
(* wraps each call in the instance's mutex (guarded).                      *)
(***************************************************************************)

\* How many goroutines make a call.
NumGoroutines == 2

Goroutines == 1 .. NumGoroutines

\* The shared zero.Bool variables.
Instances == {"x", "y"}

\* The calls a goroutine can make: s.NON() or s.SetValid(v) on one instance.
Calls ==
    [on : Instances, name : {"NON"}, v : {FALSE}]
        \cup [on : Instances, name : {"SetValid"}, v : BOOLEAN]

\* Nothing loaded, nothing stored yet.
NoReg == [Valid |-> "none", Bool |-> "none"]

Loaded(v) == IF v THEN "true" ELSE "false"

\* Where a goroutine goes when its method returns.
Return == IF guarded THEN "unlock" ELSE "done"

\* mu.Lock() of the caller, before the call.
Lock(g) ==
    /\ guarded
    /\ pc[g] = "start"
    /\ lock[call[g].on] = {}
    /\ lock' = [lock EXCEPT ![call[g].on] = {g}]
    /\ pc' = [pc EXCEPT ![g] = "run"]
    /\ UNCHANGED <<inst, inst0, guarded, call, reg>>
    /\ UNCHANGED seqVars

\* mu.Unlock() of the caller, after the call.
Unlock(g) ==
    /\ pc[g] = "unlock"
    /\ lock' = [lock EXCEPT ![call[g].on] = {}]
    /\ pc' = [pc EXCEPT ![g] = "done"]
    /\ UNCHANGED <<inst, inst0, guarded, call, reg>>
    /\ UNCHANGED seqVars

\* NON, `if s.Valid`: the load of s.Valid.
NONLoadValid(g) ==
    /\ pc[g] = "run"
    /\ call[g].name = "NON"
    /\ reg[g].Valid = "none"
    /\ reg' = [reg EXCEPT ![g].Valid = Loaded(inst[call[g].on].Valid)]
    /\ UNCHANGED <<inst, inst0, guarded, lock, call, pc>>
    /\ UNCHANGED seqVars

\* NON, `!s.Bool`: the load of s.Bool.  Nothing orders it after the load of
\* s.Valid once another goroutine writes the fields, so it may come first.
NONLoadBool(g) ==
    /\ pc[g] = "run"
    /\ call[g].name = "NON"
    /\ reg[g].Bool = "none"
    /\ reg' = [reg EXCEPT ![g].Bool = Loaded(inst[call[g].on].Bool)]
    /\ UNCHANGED <<inst, inst0, guarded, lock, call, pc>>
    /\ UNCHANGED seqVars

\* NON's store as it would be without the `if s.Valid`.
NONStore_Unchecked(cur, r) == [cur EXCEPT !.Bool = ~(r.Bool = "true")]

\* What NON leaves in the instance cur, given the values r it loaded: the
\* negation of the loaded s.Bool when the loaded s.Valid was true.
NONStore(cur, r) ==
    IF r.Valid = "true" THEN [cur EXCEPT !.Bool = ~(r.Bool = "true")] ELSE cur

\* NON, `s.Bool = ...` and the return.
NONFinish(g) ==
    /\ pc[g] = "run"
    /\ call[g].name = "NON"
    /\ reg[g].Valid # "none"
    /\ reg[g].Valid = "true" => reg[g].Bool # "none"
    /\ inst' = [inst EXCEPT ![call[g].on] = NONStore(@, reg[g])]
    /\ pc' = [pc EXCEPT ![g] = Return]
    /\ UNCHANGED <<inst0, guarded, lock, call, reg>>
    /\ UNCHANGED seqVars

\* Has SetValid stored both fields.
SetValidDone(r) == r.Valid = "stored" /\ r.Bool = "stored"

\* SetValid, `b.Bool = v`.  The two stores are to different fields and may
\* become visible to another goroutine in either order.
SetValidStoreBool(g) ==
    /\ pc[g] = "run"
    /\ call[g].name = "SetValid"
    /\ reg[g].Bool = "none"
    /\ inst' = [inst EXCEPT ![call[g].on].Bool = call[g].v]
    /\ reg' = [reg EXCEPT ![g].Bool = "stored"]
    /\ pc' = [pc EXCEPT ![g] = IF SetValidDone(reg'[g]) THEN Return ELSE @]
    /\ UNCHANGED <<inst0, guarded, lock, call>>
    /\ UNCHANGED seqVars

\* SetValid, `b.Valid = true`.
SetValidStoreValid(g) ==
    /\ pc[g] = "run"
    /\ call[g].name = "SetValid"
    /\ reg[g].Valid = "none"
    /\ inst' = [inst EXCEPT ![call[g].on].Valid = TRUE]
    /\ reg' = [reg EXCEPT ![g].Valid = "stored"]
    /\ pc' = [pc EXCEPT ![g] = IF SetValidDone(reg'[g]) THEN Return ELSE @]
    /\ UNCHANGED <<inst0, guarded, lock, call>>
    /\ UNCHANGED seqVars

(***************************************************************************)
(* The two specifications                                                  *)
(***************************************************************************)

\* Spec: b is declared, no call made yet; no goroutine runs.
Init ==
    /\ b = Zero
    /\ op = "init"
    /\ pre = Zero
    /\ arg = NoArgs
    /\ res = NoResults
    /\ inst = [i \in Instances |-> Zero]
    /\ inst0 = [i \in Instances |-> Zero]
    /\ guarded = FALSE
    /\ lock = [i \in Instances |-> {}]
    /\ call = [g \in Goroutines |-> [on |-> "x", name |-> "NON", v |-> FALSE]]
    /\ pc = [g \in Goroutines |-> "done"]
    /\ reg = [g \in Goroutines |-> NoReg]

Next ==
    \/ CallNewBool
    \/ CallBoolFrom
    \/ CallBoolFromPtr
    \/ CallNewBoolFromString
    \/ CallBoolFromString
    \/ CallBoolFromStringExist
    \/ CallUnmarshalJSON
    \/ CallUnmarshalText
    \/ CallMarshalJSON
    \/ CallMarshalText
    \/ CallSetValid
    \/ CallPtr
    \/ CallIsZero
    \/ CallOverwriteWithIfValid
    \/ CallAND
    \/ CallOR
    \/ CallNON
    \/ CallXOR

Spec == Init /\ [][Next]_vars

\* SpecConc: the instances hold any values, every goroutine is about to make
\* one call, and the callers either all use the instance's mutex or none does.
InitConc ==
    /\ b = Zero
    /\ op = "init"
    /\ pre = Zero
    /\ arg = NoArgs
    /\ res = NoResults
    /\ inst0 \in [Instances -> BoolT]
    /\ inst = inst0
    /\ guarded \in BOOLEAN
    /\ lock = [i \in Instances |-> {}]
    /\ call \in [Goroutines -> Calls]
    /\ pc = [g \in Goroutines |-> IF guarded THEN "start" ELSE "run"]
    /\ reg = [g \in Goroutines |-> NoReg]

NextConc ==
    \E g \in Goroutines :
        \/ Lock(g)
        \/ Unlock(g)
        \/ NONLoadValid(g)
        \/ NONLoadBool(g)
        \/ NONFinish(g)
        \/ SetValidStoreBool(g)
        \/ SetValidStoreValid(g)

SpecConc == InitConc /\ [][NextConc]_vars

(***************************************************************************)
(* Properties of Spec                                                      *)
(***************************************************************************)

TT == [Bool |-> TRUE, Valid |-> TRUE]
FT == [Bool |-> FALSE, Valid |-> TRUE]
FF == [Bool |-> FALSE, Valid |-> FALSE]

C2_BinaryOperators ==
    op \in {"AND", "OR", "XOR"} =>
        LET x == pre.Bool
            y == arg.other.Bool
        IN  /\ b = pre
            /\ (~pre.Valid \/ ~arg.other.Valid) => res.ret = FF
            /\ (pre.Valid /\ arg.other.Valid) =>
                  /\ res.ret.Valid
                  /\ op = "AND" => (res.ret.Bool <=> (x /\ y))
                  /\ op = "OR"  => (res.ret.Bool <=> (x \/ y))
                  /\ op = "XOR" => (res.ret.Bool <=> ((x \/ y) /\ ~(x /\ y)))

\* C2 witness: XOR of two valid true operands returned a valid false.
C2_Witness ==
    op = "XOR" /\ pre = TT /\ arg.other = TT /\ res.ret = FT /\ b = TT

\* The JSON text of a boolean, and of a sql.NullBool object.
Lit(v) == IF v THEN "true" ELSE "false"
NullBoolDoc(v, valid) == "{\"Bool\":" \o Lit(v) \o ",\"Valid\":" \o Lit(valid) \o "}"

\* C3: UnmarshalJSON of a boolean literal v, or of an object {Bool: v,
\* Valid: anything}, returns no error and leaves value = v and valid = v
\* whatever the receiver held; of null it returns no error and leaves
\* valid = false.
C3_UnmarshalJSONCollapses ==
    op = "UnmarshalJSON" =>
        /\ \A v \in BOOLEAN :
              (arg.s = Lit(v) \/ \E valid \in BOOLEAN : arg.s = NullBoolDoc(v, valid)) =>
                  /\ res.err = Nil
                  /\ b.Bool = v
                  /\ b.Valid = v
        /\ arg.s = "null" => (res.err = Nil /\ ~b.Valid)

\* C3 witness: {Bool:false, Valid:true} decoded into a valid true receiver
\* left it (false, invalid).
C3_Witness ==
    /\ op = "UnmarshalJSON"
    /\ arg.s = NullBoolDoc(FALSE, TRUE)
    /\ pre = TT
    /\ b = FF
    /\ res.err = Nil

\* C4: UnmarshalText succeeds exactly on "", "null", "true" and "false":
\* "" and "null" leave valid = false, "true" leaves (true, valid), "false"
\* leaves (false, invalid); any other text returns the error "invalid
\* input:" followed by the text and leaves valid = false.
C4_UnmarshalText ==
    op = "UnmarshalText" =>
        /\ res.err = Nil <=> arg.s \in {"", "null", "true", "false"}
        /\ arg.s \in {"", "null"} => ~b.Valid
        /\ arg.s = "true" => b = TT
        /\ arg.s = "false" => b = FF
        /\ arg.s \notin {"", "null", "true", "false"} =>
              /\ res.err = "invalid input:" \o arg.s
              /\ ~b.Valid

\* C4 witness: "True" was rejected and a valid true receiver became invalid.
C4_Witness ==
    /\ op = "UnmarshalText"
    /\ arg.s = "True"
    /\ pre = TT
    /\ res.err = "invalid input:True"
    /\ ~b.Valid

\* The error UnmarshalJSON builds for a node of the wrong kind.
TypeMismatch(kind) ==
    "json: cannot unmarshal " \o kind \o " into Go value of type zero.Bool"

\* Names under which an error can name the kind of a JSON node.
KindNames(data) ==
    IF data \in NumberDocs THEN {"float64", "number"}
    ELSE IF data \in StringDocs THEN {"string"}
    ELSE {"[]interface {}", "slice", "array"}

\* C5: UnmarshalJSON of a number, a string or an array returns an error
\* that names the kind of the node with a non-empty name, and leaves
\* valid = false and the value as it was.
C5_TypeMismatchNamesKind ==
    (op = "UnmarshalJSON" /\ arg.s \in NumberDocs \cup StringDocs \cup ArrayDocs) =>
        /\ \E kind \in KindNames(arg.s) : res.err = TypeMismatch(kind)
        /\ ~b.Valid
        /\ b.Bool = pre.Bool

C7_NONKeepsValid ==
    op = "NON" =>
        /\ b.Valid = pre.Valid
        /\ ~pre.Valid => b = pre
        /\ pre.Valid => b.Bool = ~pre.Bool
        /\ NON(b) = pre

\* C7 witness: NON turned a valid false into a valid true, and a second NON
\* gives the valid false back.
C7_Witness ==
    op = "NON" /\ pre = FT /\ b = TT /\ NON(b) = FT

\* C8: OverwriteWithIfValid(st, v) leaves the receiver as it was when v is
\* false and leaves (st, true) when v is true.
C8_OverwriteWithIfValid ==
    op = "OverwriteWithIfValid" =>
        /\ ~arg.valid => b = pre
        /\ arg.valid => b = [Bool |-> arg.v, Valid |-> TRUE]

\* C8 witness: the candidate (false, false) left the receiver (true, true).
C8_Witness ==
    /\ op = "OverwriteWithIfValid"
    /\ pre = TT
    /\ arg.v = FALSE
    /\ arg.valid = FALSE
    /\ b = TT

\* The texts on which the strict and the lenient parser differ.
Differing == {"", "True", "TRUE", "False", "FALSE"}

\* C9: NewBoolFromString(s, false) is (false, false); NewBoolFromString(s,
\* true) is (true, true) for "1" and "true", (false, true) for "0" and
\* "false", (false, false) otherwise; where it is valid BoolFromString(s) is
\* the same; the two differ exactly on "", "True", "TRUE", "False", "FALSE",
\* where BoolFromString gives (false, true) for "" and "False"/"FALSE" and
\* (true, true) for "True"/"TRUE".
C9_StrictAndLenientParsers ==
    /\ op = "NewBoolFromString" =>
          /\ ~arg.valid => res.ret = FF
          /\ arg.valid =>
                /\ res.ret = TT <=> arg.s \in {"1", "true"}
                /\ res.ret = FT <=> arg.s \in {"0", "false"}
                /\ res.ret = FF <=> arg.s \notin {"1", "true", "0", "false"}
                /\ res.ret.Valid => BoolFromString(arg.s) = res.ret
                /\ res.ret # BoolFromString(arg.s) <=> arg.s \in Differing
    /\ op = "BoolFromString" =>
          /\ res.ret # NewBoolFromString(arg.s, TRUE) <=> arg.s \in Differing
          /\ arg.s \in Differing => NewBoolFromString(arg.s, TRUE) = FF
          /\ arg.s \in {"", "False", "FALSE"} => res.ret = FT
          /\ arg.s \in {"True", "TRUE"} => res.ret = TT

\* C9 witness: the strict parser gave (false, false) for "TRUE", for which
\* the lenient parser gives (true, true).
C9_Witness ==
    /\ op = "NewBoolFromString"
    /\ arg.s = "TRUE"
    /\ arg.valid
    /\ res.ret = FF
    /\ BoolFromString(arg.s) = TT

(***************************************************************************)
(* Properties of SpecConc                                                  *)
(***************************************************************************)

\* The goroutines that call a method on instance i.
Callers(i) == {g \in Goroutines : call[g].on = i}

\* What a call leaves in an instance when nothing runs during it.
Apply(c, v) == IF c.name = "NON" THEN NON(v) ELSE SetValid(v, c.v)

\* What the calls of the goroutines G can leave in an instance that held v,
\* when they run one after the other, in any order.
RECURSIVE SerialFrom(_, _)
SerialFrom(v, G) ==
    IF G = {} THEN {v}
    ELSE UNION {SerialFrom(Apply(call[g], v), G \ {g}) : g \in G}

\* Every call on instance i has returned (and released the mutex).
Returned(i) == \A g \in Callers(i) : pc[g] = "done"

\* C10: once the calls on an instance have returned, and they ran under the
\* mutex or there was at most one of them, the instance holds what some
\* serial order of those calls alone leaves in it: calls on the other
\* instances have no effect on it.
C10_SerialUnderExclusion ==
    \A i \in Instances :
        (Returned(i) /\ (guarded \/ Cardinality(Callers(i)) <= 1)) =>
            inst[i] \in SerialFrom(inst0[i], Callers(i))

\* C10 witness: two NON calls ran without a mutex on the same valid instance
\* and left its value negated, which neither serial order does.
C10_Witness ==
    \E i \in Instances, g, h \in Goroutines :
        /\ ~guarded
        /\ g # h
        /\ Callers(i) = {g, h}
        /\ call[g].name = "NON"
        /\ call[h].name = "NON"
        /\ inst0[i].Valid
        /\ Returned(i)
        /\ inst[i] = [inst0[i] EXCEPT !.Bool = ~inst0[i].Bool]
        /\ inst[i] \notin SerialFrom(inst0[i], Callers(i))

=============================================================================
